---- MODULE Spec2Model ----
(***************************************************************************)
(* StrawberrySQLAlchemyLoader (src/strawberry_sqlalchemy_mapper/loader.py) *)
(* as a state machine: the registry of per-relationship DataLoaders, the   *)
(* batch function load_fn (query construction, execution through the       *)
(* configured binding, regrouping of the rows) and the event loop on which *)
(* callers, batch dispatches and scoped handles interleave.                *)
(***************************************************************************)
EXTENDS Integers, Sequences, FiniteSets, TLC

(***************************************************************************)
(* Bounds of the model.                                                    *)
(***************************************************************************)
\* callers (field resolvers); each issues one load(key)
NumCallers == 2
\* longest key list handed to a directly called load_fn
PfMaxKeys == 2
\* longest row list the query returns to a directly called load_fn
PfMaxRows == 3
\* key values 1..PfMaxKeyVal in the keys and rows of a directly called load_fn
PfMaxKeyVal == 2

None == "None"

Callers == 1..NumCallers

(***************************************************************************)
(* Relationship Definitions, as SQLAlchemy's RelationshipProperty exposes  *)
(* them to load_fn: entity, local_remote_pairs, local_columns, uselist,    *)
(* order_by.  The three relationships are those of the tests' fixtures     *)
(* (one-to-many Department.employees, many-to-many Department.employees    *)
(* through the join table) and the many-to-one reverse side.               *)
(***************************************************************************)
Col(t, k) == [table |-> t, key |-> k]

RelEmployees ==
    [name |-> "Department.employees",
     entity |-> "employee",
     local_remote_pairs |->
        << <<Col("department", "id"), Col("employee", "department_id")>> >>,
     local_columns |-> {Col("department", "id")},
     uselist |-> TRUE,
     order_by |-> <<Col("employee", "name")>>]

RelSecondary ==
    [name |-> "Department.employees(secondary)",
     entity |-> "employee",
     local_remote_pairs |->
        << <<Col("department", "id"), Col("join", "department_id")>>,
           <<Col("employee", "id"), Col("join", "employee_id")>> >>,
     local_columns |-> {Col("department", "id")},
     uselist |-> TRUE,
     order_by |-> <<Col("employee", "name")>>]

RelDepartment ==
    [name |-> "Employee.department",
     entity |-> "department",
     local_remote_pairs |->
        << <<Col("employee", "department_id"), Col("department", "id")>> >>,
     local_columns |-> {Col("employee", "department_id")},
     uselist |-> FALSE,
     order_by |-> <<>>]

Rels == {RelEmployees, RelSecondary, RelDepartment}

(***************************************************************************)
(* The backing store.  Names are numbers (n stands for "e<n>" or "d<n>")   *)
(* so that ORDER BY can compare them.  The employee table is stored in     *)
(* the order e3, e2, e1, so that the declared ordering by name is visible. *)
(* No department 3 exists, and no row refers to one: key <<3>> matches     *)
(* nothing in any relationship.                                            *)
(***************************************************************************)
Database ==
    [employee |-> << [id |-> 3, name |-> 3, department_id |-> 2],
                     [id |-> 2, name |-> 2, department_id |-> 1],
                     [id |-> 1, name |-> 1, department_id |-> 2] >>,
     department |-> << [id |-> 1, name |-> 1],
                       [id |-> 2, name |-> 2] >>,
     join |-> << [employee_id |-> 2, department_id |-> 2],
                 [employee_id |-> 1, department_id |-> 1],
                 [employee_id |-> 1, department_id |-> 2] >>]

\* The Batch Keys callers submit: 1-tuples of a local column value, here the
\* ids the store's rows carry and one id (3) that no row carries.
KeyVals == {Database.department[i].id : i \in 1..Len(Database.department)} \cup {3}
Keys == {<<v>> : v \in KeyVals}

\* the ORM entity of a row: its table and primary key (identity map)
EntityOf(t, row) == [table |-> t, id |-> row.id]

(***************************************************************************)
(* load_fn, part 1: the query (loader.py lines 77-100).                    *)
(***************************************************************************)
\* the pairs whose remote column is selected and filtered on
FilterPairs(relationship) ==
    SelectSeq(relationship.local_remote_pairs,
              LAMBDA p : p[1] \in relationship.local_columns /\ p[2].key # "")

remote_cols_for_where(relationship) ==
    [i \in 1..Len(FilterPairs(relationship)) |-> FilterPairs(relationship)[i][2]]

\* every pair joined on, the filter pairs included
non_local_pairs_all(relationship) == relationship.local_remote_pairs

non_local_pairs(relationship) ==
    SelectSeq(relationship.local_remote_pairs,
              LAMBDA p : p[1] \notin relationship.local_columns)

\* a query that filters on the first key of the list only
BuildQuery_first_key(relationship, keys) ==
    [entity |-> relationship.entity,
     cols |-> remote_cols_for_where(relationship),
     in_keys |-> IF keys = <<>> THEN <<>> ELSE <<keys[1]>>,
     joins |-> [i \in 1..Len(non_local_pairs(relationship)) |->
                  [table |-> non_local_pairs(relationship)[i][2].table,
                   local |-> non_local_pairs(relationship)[i][1],
                   remote |-> non_local_pairs(relationship)[i][2]]],
     order_by |-> relationship.order_by]

\* select(related_model, *cols).filter(tuple_(*cols).in_(keys)).join(...).order_by(...)
BuildQuery(relationship, keys) ==
    [entity |-> relationship.entity,
     cols |-> remote_cols_for_where(relationship),
     in_keys |-> keys,
     joins |-> [i \in 1..Len(non_local_pairs(relationship)) |->
                  [table |-> non_local_pairs(relationship)[i][2].table,
                   local |-> non_local_pairs(relationship)[i][1],
                   remote |-> non_local_pairs(relationship)[i][2]]],
     order_by |-> relationship.order_by]

(***************************************************************************)
(* The store's evaluation of such a query: the FROM list is the entity's   *)
(* table, the joined tables, and any table a selected column needs; rows   *)
(* are combined entity-major, filtered by the join conditions and the IN   *)
(* predicate, and sorted (stably) by the ORDER BY columns.                 *)
(***************************************************************************)
Range(s) == {s[i] : i \in 1..Len(s)}

RECURSIVE Dedup(_)
Dedup(s) ==
    IF s = <<>> THEN <<>>
    ELSE LET front == Dedup(SubSeq(s, 1, Len(s) - 1))
             x == s[Len(s)]
         IN IF x \in Range(front) THEN front ELSE Append(front, x)

FromTables(q) ==
    Dedup(<<q.entity>> \o [i \in 1..Len(q.joins) |-> q.joins[i].table]
                      \o [i \in 1..Len(q.cols) |-> q.cols[i].table])

RECURSIVE ExtendAll(_, _, _)
\* every combination in cs extended by every row of table t, cs-major
ExtendAll(cs, t, trows) ==
    IF cs = <<>> THEN <<>>
    ELSE [j \in 1..Len(trows) |-> (t :> trows[j]) @@ Head(cs)]
         \o ExtendAll(Tail(cs), t, trows)

RECURSIVE Combos(_, _)
Combos(db, tabs) ==
    IF tabs = <<>> THEN << <<>> >>
    ELSE ExtendAll(Combos(db, SubSeq(tabs, 1, Len(tabs) - 1)),
                   tabs[Len(tabs)], db[tabs[Len(tabs)]])

ColValue(combo, col) == combo[col.table][col.key]

ColTuple(combo, cols) == [i \in 1..Len(cols) |-> ColValue(combo, cols[i])]

RECURSIVE TupleLess(_, _)
TupleLess(a, b) ==
    IF a = <<>> \/ b = <<>> THEN FALSE
    ELSE \/ Head(a) < Head(b)
         \/ Head(a) = Head(b) /\ TupleLess(Tail(a), Tail(b))

RECURSIVE InsertSorted(_, _, _)
\* c inserted after every element not greater than it (a stable sort)
InsertSorted(sorted, c, cols) ==
    IF sorted = <<>> THEN <<c>>
    ELSE IF TupleLess(ColTuple(c, cols), ColTuple(Head(sorted), cols))
         THEN <<c>> \o sorted
         ELSE <<Head(sorted)>> \o InsertSorted(Tail(sorted), c, cols)

RECURSIVE SortBy(_, _)
SortBy(cs, cols) ==
    IF cs = <<>> THEN <<>>
    ELSE InsertSorted(SortBy(SubSeq(cs, 1, Len(cs) - 1), cols), cs[Len(cs)], cols)

\* the rows of result.tuples().all(): (target_entity, *cols_filtered_on)
RunQuery(db, q) ==
    LET all == Combos(db, FromTables(q))
        joined == SelectSeq(all, LAMBDA c :
                     \A i \in 1..Len(q.joins) :
                        ColValue(c, q.joins[i].local) = ColValue(c, q.joins[i].remote))
        kept == SelectSeq(joined, LAMBDA c : ColTuple(c, q.cols) \in Range(q.in_keys))
        ordered == IF q.order_by = <<>> THEN kept ELSE SortBy(kept, q.order_by)
    IN [i \in 1..Len(ordered) |->
          [target_entity |-> EntityOf(q.entity, ordered[i][q.entity]),
           cols_filtered_on |-> ColTuple(ordered[i], q.cols)]]

(***************************************************************************)
(* load_fn, part 2: regrouping (loader.py lines 105-114).                  *)
(***************************************************************************)
RECURSIVE grouped_keys_prepend(_)
\* each entity put at the front of its group instead of appended
grouped_keys_prepend(rows) ==
    IF rows = <<>> THEN <<>>
    ELSE LET g == grouped_keys_prepend(SubSeq(rows, 1, Len(rows) - 1))
             r == rows[Len(rows)]
             k == r.cols_filtered_on
         IN IF k \in DOMAIN g
            THEN [g EXCEPT ![k] = <<r.target_entity>> \o @]
            ELSE (k :> <<r.target_entity>>) @@ g

RECURSIVE grouped_keys(_)
\* the defaultdict(list) after the loop over rows: tuple -> entities, in row order
grouped_keys(rows) ==
    IF rows = <<>> THEN <<>>
    ELSE LET g == grouped_keys(SubSeq(rows, 1, Len(rows) - 1))
             r == rows[Len(rows)]
             k == r.cols_filtered_on
         IN IF k \in DOMAIN g
            THEN [g EXCEPT ![k] = Append(@, r.target_entity)]
            ELSE (k :> <<r.target_entity>>) @@ g

\* grouped_keys[key] of a defaultdict(list): a missing key reads as []
Lookup(g, key) == IF key \in DOMAIN g THEN g[key] ELSE <<>>

\* The values of an output slot, tagged with their Python type: a list of
\* entities, one entity, or None.
ListValue(items) == [kind |-> "list", items |-> items]
EntityValue(e) == [kind |-> "entity", items |-> <<e>>]
NoneValue == [kind |-> "None", items |-> <<>>]

\* one slot per distinct tuple of the rows instead of one per key
load_fn_return_per_group(relationship, keys, rows) ==
    LET g == grouped_keys(rows)
        hit == SelectSeq(keys, LAMBDA k : k \in DOMAIN g)
    IN [i \in 1..Len(hit) |->
          IF relationship.uselist THEN ListValue(g[hit[i]])
          ELSE EntityValue(g[hit[i]][1])]

\* the last matching entity instead of the first
load_fn_return_last(relationship, keys, rows) ==
    LET g == grouped_keys(rows)
    IN IF relationship.uselist
       THEN [i \in 1..Len(keys) |-> ListValue(Lookup(g, keys[i]))]
       ELSE [i \in 1..Len(keys) |->
               IF Lookup(g, keys[i]) # <<>>
               THEN EntityValue(Lookup(g, keys[i])[Len(Lookup(g, keys[i]))])
               ELSE NoneValue]

\* the group of a key handed out once (grouped_keys.pop), a repeat finds none
load_fn_return_pop(relationship, keys, rows) ==
    LET g == grouped_keys(rows)
        got(i) == IF \E j \in 1..(i - 1) : keys[j] = keys[i] THEN <<>>
                  ELSE Lookup(g, keys[i])
    IN IF relationship.uselist
       THEN [i \in 1..Len(keys) |-> ListValue(got(i))]
       ELSE [i \in 1..Len(keys) |->
               IF got(i) # <<>> THEN EntityValue(got(i)[1]) ELSE NoneValue]

\* the slots in reverse key order
load_fn_return_reversed(relationship, keys, rows) ==
    LET g == grouped_keys(rows)
        n == Len(keys)
    IN IF relationship.uselist
       THEN [i \in 1..n |-> ListValue(Lookup(g, keys[n + 1 - i]))]
       ELSE [i \in 1..n |->
               IF Lookup(g, keys[n + 1 - i]) # <<>>
               THEN EntityValue(Lookup(g, keys[n + 1 - i])[1])
               ELSE NoneValue]

\* the list load_fn returns
load_fn_return(relationship, keys, rows) ==
    LET g == grouped_keys(rows)
    IN IF relationship.uselist
       THEN [i \in 1..Len(keys) |-> ListValue(Lookup(g, keys[i]))]
       ELSE [i \in 1..Len(keys) |->
               IF Lookup(g, keys[i]) # <<>>
               THEN EntityValue(Lookup(g, keys[i])[1])
               ELSE NoneValue]

(***************************************************************************)
(* State.                                                                  *)
(***************************************************************************)
VARIABLES
    bind,               \* self._bind: None or the pre-acquired session
    async_bind_factory, \* self._async_bind_factory: None or the factory
    warned,             \* the constructor logged its warning
    loaders,            \* self._loaders: relationship name -> unit
    created,            \* DataLoaders constructed so far, per relationship
    units,              \* each DataLoader: its cache_map and current batch
    batches,            \* every Batch created, in creation order
    callers,            \* the resolvers: position, requested key, future, outcome
    acquired,           \* handles acquired from the factory so far
    released,           \* handles released so far
    bind_executes,      \* executions run on the pre-acquired bind
    pf                  \* a direct call of load_fn: inputs, position, output

vars == <<bind, async_bind_factory, warned, loaders, created, units, batches,
          callers, acquired, released, bind_executes, pf>>

RelNames == {r.name : r \in Rels}
RelByName(n) == CHOOSE r \in Rels : r.name = n

NoFuture == <<0, 0>>
NoGot == [kind |-> "none", value |-> NoneValue, error |-> ""]
NoQuery == [entity |-> "", cols |-> <<>>, in_keys |-> <<>>, joins |-> <<>>,
            order_by |-> <<>>]
NoResult == [kind |-> "none", rows |-> <<>>, error |-> ""]
Pending == [kind |-> "pending", values |-> <<>>, error |-> ""]
PfOff == [pc |-> "off", rel |-> "", keys |-> <<>>, rows |-> <<>>, out |-> <<>>]

\* StrawberrySQLAlchemyLoader(bind=b, async_bind_factory=f)
Construct(b, f) ==
    /\ bind = b
    /\ async_bind_factory = f
    /\ warned = (b = None /\ f = None)
    /\ loaders = <<>>
    /\ created = [r \in RelNames |-> 0]
    /\ units = <<>>
    /\ batches = <<>>
    /\ callers = [c \in Callers |->
                    [pc |-> "idle", rel |-> "", unit |-> <<"", 0>>, key |-> <<>>,
                     future |-> NoFuture, after_dispatch |-> FALSE,
                     got |-> NoGot, resumes |-> 0]]
    /\ acquired = 0
    /\ released = 0
    /\ bind_executes = 0

Init ==
    /\ \E b \in {None, "session"}, f \in {None, "factory"} : Construct(b, f)
    /\ pf = PfOff

(***************************************************************************)
(* loader_for (loader.py lines 56-117) followed by DataLoader.load: what a *)
(* resolver does for one parent row, loader_for(relationship).load(key).   *)
(* The DataLoader is strawberry's, constructed at line 116 with its        *)
(* defaults (cache on, no max_batch_size): load returns the cached future  *)
(* of a key it has seen, otherwise makes a future, caches it and adds the  *)
(* task to the current batch, opening a batch (and scheduling its dispatch *)
(* with call_soon) when there is none or the current one was dispatched.   *)
(***************************************************************************)
\* the registry keyed by the target model instead of the relationship
RegistryKey_by_entity(r) == RelByName(r).entity

\* the key under which self._loaders holds the unit of a relationship
RegistryKey(r) == r

\* a lookup that never finds the stored unit
loader_for_hit_never(r) == FALSE

\* try: return self._loaders[relationship]   (no KeyError)
loader_for_hit(r) == RegistryKey(r) \in DOMAIN loaders

\* a DataLoader constructed with cache=False: no key is ever found cached
cache_hit_never(dl, k) == FALSE

\* DataLoader(load_fn=load_fn) caches (the default): load finds the future of
\* a key it was asked before
cache_hit(dl, k) == k \in DOMAIN dl.cache_map

NewBatch(u) ==
    [unit |-> u, tasks |-> <<>>, dispatched |-> FALSE, pc |-> "scheduled",
     execute_calls |-> 0, store_executes |-> 0, query |-> NoQuery,
     result |-> NoResult, trace |-> <<>>,
     handle |-> "none", outcome |-> Pending]

\* Callers are interchangeable: they are numbered in the order of their calls.
Load(c, r, k) ==
    /\ callers[c].pc = "idle"
    /\ \A d \in Callers : d < c => callers[d].pc # "idle"
    /\ LET hit == loader_for_hit(r)
           u == IF hit THEN loaders[RegistryKey(r)] ELSE <<r, created[r] + 1>>
           units1 == IF hit THEN units
                     ELSE (u :> [cache_map |-> <<>>, batch |-> 0]) @@ units
           dl == units1[u]
           cached == cache_hit(dl, k)
           open == dl.batch # 0 /\ ~batches[dl.batch].dispatched
           b == IF open THEN dl.batch ELSE Len(batches) + 1
           batches1 == IF open THEN batches ELSE Append(batches, NewBatch(u))
           future == IF cached THEN dl.cache_map[k]
                     ELSE <<b, Len(batches1[b].tasks) + 1>>
       IN /\ loaders' = IF hit THEN loaders ELSE (RegistryKey(r) :> u) @@ loaders
          /\ created' = IF hit THEN created ELSE [created EXCEPT ![r] = @ + 1]
          /\ units' = IF cached THEN units1
                      ELSE [units1 EXCEPT ![u] =
                              [cache_map |-> (k :> future) @@ dl.cache_map,
                               batch |-> b]]
          /\ batches' = IF cached THEN batches
                        ELSE [batches1 EXCEPT ![b].tasks = Append(@, k)]
          /\ callers' = [callers EXCEPT ![c] =
                           [@ EXCEPT !.pc = "waiting", !.rel = r, !.unit = u,
                                     !.key = k, !.future = future,
                                     !.after_dispatch =
                                        batches'[future[1]].dispatched]]
    /\ UNCHANGED <<bind, async_bind_factory, warned, acquired, released,
                   bind_executes, pf>>

(***************************************************************************)
(* dispatch_batch of the DataLoader running load_fn (loader.py lines       *)
(* 65-114) and _execute (lines 48-54).                                     *)
(***************************************************************************)
\* what the store answers to bind.execute(query): the rows, or a failure
StoreOutcomes(q) ==
    {[kind |-> "rows", rows |-> RunQuery(Database, q), error |-> ""],
     [kind |-> "error", rows |-> <<>>, error |-> "QueryError"]}

\* a query per key instead of one per key list
load_fn_execute_calls_per_key(keys) == Len(keys)

\* the calls of self._execute one run of load_fn makes (line 101)
load_fn_execute_calls(keys) == 1

\* the relationship the closure load_fn of a unit was built for
load_fn_relationship(u) == RelByName(u[1])

\* a release written after the execute call, skipped when it raises
HandleAfterExit_leak_on_error(result) ==
    IF result.kind = "error" THEN "held" ELSE "released"

\* the handle after the exit of "async with": released on every path
HandleAfterExit(result) == "released"

\* an execution failure answered with empty results instead of raised
Finish_swallow(bt) ==
    [bt EXCEPT !.pc = "done",
               !.outcome = [kind |-> "values",
                            values |-> load_fn_return(load_fn_relationship(bt.unit),
                                                      bt.tasks, bt.result.rows),
                            error |-> ""]]

\* The end of load_fn and of dispatch_batch: an exception of the execution
\* goes to every future of the batch; otherwise the rows are regrouped and
\* value i resolves future i (a list of another length is an exception
\* for every future).
Finish(bt) ==
    IF bt.result.kind = "error"
    THEN [bt EXCEPT !.pc = "done",
                    !.outcome = [kind |-> "exception", values |-> <<>>,
                                 error |-> bt.result.error]]
    ELSE LET values == load_fn_return(load_fn_relationship(bt.unit), bt.tasks,
                                      bt.result.rows)
         IN IF Len(values) # Len(bt.tasks)
            THEN [bt EXCEPT !.pc = "done",
                            !.outcome = [kind |-> "exception", values |-> <<>>,
                                         error |-> "WrongNumberOfResultsReturned"]]
            ELSE [bt EXCEPT !.pc = "done",
                            !.outcome = [kind |-> "values", values |-> values,
                                         error |-> ""]]

\* _execute taking the pre-acquired bind whenever there is one
execute_uses_factory_unless_bind == async_bind_factory # None /\ bind = None

\* _execute, line 49: if self._async_bind_factory
execute_uses_factory == async_bind_factory # None

\* _execute without its assertion, running on whatever self._bind is
execute_bind_present_unchecked == TRUE

\* _execute, line 53: assert self._bind is not None
execute_bind_present == bind # None

\* rows read from the result while the handle is still held
AfterExecuteEvents_read_inside(result) ==
    IF result.kind = "error" THEN <<"release">>
    ELSE <<"rows", "release", "regroup">>

\* What follows bind.execute on a scoped handle: the exit of "async with"
\* (line 50), then, when the execution returned, result.tuples().all()
\* (line 103) and the regrouping (lines 105-114).
AfterExecuteEvents(result) ==
    IF result.kind = "error" THEN <<"release">>
    ELSE <<"release", "rows", "regroup">>

\* the same on the pre-acquired bind: no handle to release
AfterBindExecuteEvents(result) ==
    IF result.kind = "error" THEN <<"execute">>
    ELSE <<"execute", "rows", "regroup">>

\* load_fn up to its call of self._execute(query)
Started(bt) ==
    [bt EXCEPT !.dispatched = TRUE,
               !.query = BuildQuery(load_fn_relationship(bt.unit), bt.tasks),
               !.execute_calls = @ + load_fn_execute_calls(bt.tasks)]

\* The dispatch scheduled by call_soon runs.  With a factory, _execute
\* acquires a handle and suspends in bind.execute; with the pre-acquired
\* bind nothing suspends and the batch runs to its end; with neither, the
\* assertion of line 53 fails.
DispatchBatch(b) ==
    /\ batches[b].pc = "scheduled"
    /\ \/ /\ execute_uses_factory
          /\ batches' = [batches EXCEPT ![b] =
                           [Started(batches[b]) EXCEPT !.pc = "execute",
                                                       !.handle = "held",
                                                       !.trace = <<"acquire">>]]
          /\ acquired' = acquired + 1
          /\ UNCHANGED <<released, bind_executes>>
       \/ /\ ~execute_uses_factory
          /\ execute_bind_present
          /\ \E res \in StoreOutcomes(Started(batches[b]).query) :
                batches' = [batches EXCEPT ![b] =
                              Finish([Started(batches[b]) EXCEPT
                                        !.result = res, !.store_executes = @ + 1,
                                        !.trace = AfterBindExecuteEvents(res)])]
          /\ bind_executes' = bind_executes + 1
          /\ UNCHANGED <<acquired, released>>
       \/ /\ ~execute_uses_factory
          /\ ~execute_bind_present
          /\ batches' = [batches EXCEPT ![b] =
                           Finish([Started(batches[b]) EXCEPT !.result =
                                     [kind |-> "error", rows |-> <<>>,
                                      error |-> "AssertionError"]])]
          /\ UNCHANGED <<acquired, released, bind_executes>>
    /\ UNCHANGED <<bind, async_bind_factory, warned, loaders, created, units,
                   callers, pf>>

\* await bind.execute(query) on the scoped handle returns or raises
ExecuteQuery(b) ==
    /\ batches[b].pc = "execute"
    /\ \E res \in StoreOutcomes(batches[b].query) :
          batches' = [batches EXCEPT ![b] =
                        [@ EXCEPT !.pc = "release", !.result = res,
                                  !.store_executes = @ + 1,
                                  !.trace = Append(@, "execute")]]
    /\ UNCHANGED <<bind, async_bind_factory, warned, loaders, created, units,
                   callers, acquired, released, bind_executes, pf>>

\* the exit of "async with", then the rest of load_fn and dispatch_batch
ReleaseHandle(b) ==
    /\ batches[b].pc = "release"
    /\ LET h == HandleAfterExit(batches[b].result)
       IN /\ batches' = [batches EXCEPT ![b] =
                           Finish([batches[b] EXCEPT
                                     !.handle = h,
                                     !.trace = @ \o AfterExecuteEvents(batches[b].result)])]
          /\ released' = IF h = "released" THEN released + 1 ELSE released
    /\ UNCHANGED <<bind, async_bind_factory, warned, loaders, created, units,
                   callers, acquired, bind_executes, pf>>

\* a caller awaiting a resolved future is resumed with its result or exception
Resume(c) ==
    /\ callers[c].pc = "waiting"
    /\ LET bt == batches[callers[c].future[1]]
           i == callers[c].future[2]
       IN /\ bt.pc = "done"
          /\ callers' = [callers EXCEPT ![c] =
               [@ EXCEPT !.pc = "resumed", !.resumes = @ + 1,
                         !.got = IF bt.outcome.kind = "values"
                                 THEN [kind |-> "result",
                                       value |-> bt.outcome.values[i],
                                       error |-> ""]
                                 ELSE [kind |-> "exception", value |-> NoneValue,
                                       error |-> bt.outcome.error]]]
    /\ UNCHANGED <<bind, async_bind_factory, warned, loaders, created, units,
                   batches, acquired, released, bind_executes, pf>>

Next ==
    \/ \E c \in Callers, r \in RelNames, k \in Keys : Load(c, r, k)
    \/ \E b \in 1..Len(batches) : DispatchBatch(b)
    \/ \E b \in 1..Len(batches) : ExecuteQuery(b)
    \/ \E b \in 1..Len(batches) : ReleaseHandle(b)
    \/ \E c \in Callers : Resume(c)

Spec == Init /\ [][Next]_vars

\* The event loop runs every ready callback: a caller awaiting a resolved
\* future is resumed.
FairSpec == Spec /\ \A c \in Callers : WF_vars(Resume(c))

(***************************************************************************)
(* load_fn called directly with a key list, the store answering with any   *)
(* rows: lines 103-114 as a function of (relationship, keys, rows).        *)
(***************************************************************************)
BSeq(S, n) == UNION {[1..m -> S] : m \in 0..n}

PfKeys == {<<v>> : v \in 1..PfMaxKeyVal}

PfRows(r) ==
    {[target_entity |-> [table |-> RelByName(r).entity, id |-> i],
      cols_filtered_on |-> k] : i \in {1, 2}, k \in PfKeys}

InitLoadFn ==
    /\ Construct("session", None)
    /\ \E r \in RelNames :
         \E ks \in BSeq(PfKeys, PfMaxKeys), rs \in BSeq(PfRows(r), PfMaxRows) :
            pf = [pc |-> "called", rel |-> r, keys |-> ks, rows |-> rs, out |-> <<>>]

LoadFnReturns ==
    /\ pf.pc = "called"
    /\ pf' = [pf EXCEPT !.pc = "returned",
                        !.out = load_fn_return(RelByName(pf.rel), pf.keys, pf.rows)]
    /\ UNCHANGED <<bind, async_bind_factory, warned, loaders, created, units,
                   batches, callers, acquired, released, bind_executes>>

NextLoadFn == LoadFnReturns

SpecLoadFn == InitLoadFn /\ [][NextLoadFn]_vars

(***************************************************************************)
(* Properties.                                                             *)
(***************************************************************************)
BatchIds == 1..Len(batches)

\* the entities of the rows whose filter-column tuple is key, in row order
Matching(rows, key) ==
    LET m == SelectSeq(rows, LAMBDA r : r.cols_filtered_on = key)
    IN [i \in 1..Len(m) |-> m[i].target_entity]

\* the slot a key is due, given the rows of the query
ExpectedSlot(relationship, key, rows) ==
    IF relationship.uselist THEN ListValue(Matching(rows, key))
    ELSE IF Matching(rows, key) = <<>> THEN NoneValue
    ELSE EntityValue(Matching(rows, key)[1])

\* C1: every batch of a Fetch Unit makes exactly one call of _execute once it
\* is dispatched (none before), whatever the number of its keys; a unit has
\* at most one batch open at a time, so the loads of one tick that reach the
\* store share one batch, and every waiting call sits in a batch of its own
\* unit under its own key.  (A load of a key the DataLoader has cached joins
\* the future of the earlier batch and opens none.)
C1_OneQueryPerBatch ==
    /\ \A b \in BatchIds :
          batches[b].execute_calls = IF batches[b].pc = "scheduled" THEN 0 ELSE 1
    /\ \A u \in DOMAIN units :
          Cardinality({b \in BatchIds :
                         batches[b].unit = u /\ ~batches[b].dispatched}) <= 1
    /\ \A c \in Callers : callers[c].pc # "idle" =>
          /\ callers[c].future[1] \in BatchIds
          /\ batches[callers[c].future[1]].unit = callers[c].unit
          /\ callers[c].future[2] \in 1..Len(batches[callers[c].future[1]].tasks)
          /\ batches[callers[c].future[1]].tasks[callers[c].future[2]] = callers[c].key

\* two calls with different keys served by one finished batch and its one query
C1_Witness ==
    \E b \in BatchIds :
       /\ batches[b].pc = "done"
       /\ Len(batches[b].tasks) = 2
       /\ batches[b].execute_calls = 1
       /\ \A c \in Callers : callers[c].pc # "idle" /\ callers[c].future[1] = b
       /\ callers[1].key # callers[2].key

\* C2: the list load_fn returns has the length of the key list and its i-th
\* slot is the result of the i-th key; a key no row matches has its slot, an
\* empty list for a collection and None for a singular relationship.
C2_OutputMatchesKeys ==
    pf.pc = "returned" =>
       /\ Len(pf.out) = Len(pf.keys)
       /\ \A i \in 1..Len(pf.keys) :
             /\ i \in DOMAIN pf.out
             /\ pf.out[i] = ExpectedSlot(RelByName(pf.rel), pf.keys[i], pf.rows)
             /\ (\A j \in 1..Len(pf.rows) : pf.rows[j].cols_filtered_on # pf.keys[i])
                   => pf.out[i] = IF RelByName(pf.rel).uselist
                                  THEN ListValue(<<>>) ELSE NoneValue

\* a key with rows after a key without any, both answered in place
C2_Witness ==
    /\ pf.pc = "returned"
    /\ Len(pf.keys) = 2
    /\ Len(pf.out) = 2
    /\ \A j \in 1..Len(pf.rows) : pf.rows[j].cols_filtered_on # pf.keys[1]
    /\ \E j \in 1..Len(pf.rows) : pf.rows[j].cols_filtered_on = pf.keys[2]
    /\ pf.out[1].items = <<>>
    /\ pf.out[2].items # <<>>

\* C3: one Fetch Unit per relationship: loader_for constructs a unit for a
\* relationship once, stores it, and every call for the relationship returns
\* the stored unit.
C3_OneUnitPerRelationship ==
    /\ \A r \in RelNames : created[r] = IF r \in DOMAIN loaders THEN 1 ELSE 0
    /\ \A r \in DOMAIN loaders : loaders[r] = <<r, 1>>
    /\ DOMAIN units = {loaders[r] : r \in DOMAIN loaders}
    /\ \A c \in Callers : callers[c].pc # "idle" =>
          /\ callers[c].rel \in DOMAIN loaders
          /\ callers[c].unit = loaders[callers[c].rel]

\* loader_for called twice for one relationship: the same unit both times
C3_Witness ==
    /\ \A c \in Callers : callers[c].pc # "idle"
    /\ callers[1].rel = callers[2].rel
    /\ callers[1].unit = callers[2].unit
    /\ created[callers[1].rel] = 1

\* C4: for a singular relationship each slot is one entity, that of the first
\* row (in result order) whose tuple is the key, or None when no row matches,
\* never a list; for a collection each slot is a list, empty exactly when no
\* row matches.
C4_SingularOrCollectionSlots ==
    pf.pc = "returned" =>
       \A i \in DOMAIN pf.out :
          LET hits == {j \in 1..Len(pf.rows) :
                         pf.rows[j].cols_filtered_on = pf.keys[i]}
          IN IF RelByName(pf.rel).uselist
             THEN /\ pf.out[i].kind = "list"
                  /\ (pf.out[i].items = <<>>) <=> (hits = {})
             ELSE /\ pf.out[i].kind \in {"entity", "None"}
                  /\ (pf.out[i].kind = "None") <=> (hits = {})
                  /\ pf.out[i].kind = "None" => pf.out[i].items = <<>>
                  /\ pf.out[i].kind = "entity" =>
                        \E j \in hits :
                           /\ \A l \in hits : j <= l
                           /\ pf.out[i].items = <<pf.rows[j].target_entity>>

\* a singular relationship, a key with two rows of different entities and a
\* key with none
C4_Witness ==
    /\ pf.pc = "returned"
    /\ ~RelByName(pf.rel).uselist
    /\ \E i \in DOMAIN pf.out : pf.out[i].kind = "None"
    /\ \E i \in DOMAIN pf.out :
          /\ pf.out[i].kind = "entity"
          /\ \E j, l \in 1..Len(pf.rows) :
                /\ j < l
                /\ pf.rows[j].cols_filtered_on = pf.keys[i]
                /\ pf.rows[l].cols_filtered_on = pf.keys[i]
                /\ pf.rows[j].target_entity # pf.rows[l].target_entity

\* C5: for a collection relationship the list of a key holds the entities of
\* exactly the rows whose tuple is the key, once per row, in the rows' order.
C5_CollectionKeepsRowOrder ==
    (pf.pc = "returned" /\ RelByName(pf.rel).uselist) =>
       \A i \in DOMAIN pf.out :
          LET hits == {j \in 1..Len(pf.rows) :
                         pf.rows[j].cols_filtered_on = pf.keys[i]}
              \* the position among the hits of row j
              rank(j) == Cardinality({l \in hits : l <= j})
          IN /\ Len(pf.out[i].items) = Cardinality(hits)
             /\ \A j \in hits : pf.out[i].items[rank(j)] = pf.rows[j].target_entity

\* a key whose two rows, of different entities, have a row of another key
\* between them
C5_Witness ==
    /\ pf.pc = "returned"
    /\ RelByName(pf.rel).uselist
    /\ Len(pf.rows) = 3
    /\ pf.rows[1].cols_filtered_on = pf.rows[3].cols_filtered_on
    /\ pf.rows[2].cols_filtered_on # pf.rows[1].cols_filtered_on
    /\ pf.rows[1].target_entity # pf.rows[3].target_entity
    /\ \E i \in DOMAIN pf.out : Len(pf.out[i].items) = 2

\* C6: a finished batch has failed for every caller or succeeded for every
\* caller: the failure of its one execution is the exception of the batch,
\* unchanged, and of every caller resumed from it; a successful execution
\* gives every key a slot and every caller a result; the batch made one call
\* of _execute and at most one execution on the store.
C6_BatchAllOrNothing ==
    \A b \in BatchIds : batches[b].pc = "done" =>
       /\ batches[b].execute_calls = 1
       /\ batches[b].store_executes <= 1
       /\ (batches[b].result.kind = "error") <=> (batches[b].outcome.kind = "exception")
       /\ batches[b].result.kind = "error" =>
             batches[b].outcome.error = batches[b].result.error
       /\ batches[b].result.kind # "error" =>
             /\ batches[b].outcome.kind = "values"
             /\ Len(batches[b].outcome.values) = Len(batches[b].tasks)
       /\ \A c \in Callers :
             (callers[c].pc = "resumed" /\ callers[c].future[1] = b) =>
                IF batches[b].result.kind = "error"
                THEN /\ callers[c].got.kind = "exception"
                     /\ callers[c].got.error = batches[b].result.error
                ELSE callers[c].got.kind = "result"

\* a batch of two keys whose query failed, both callers resumed with the failure
C6_Witness ==
    \E b \in BatchIds :
       /\ batches[b].pc = "done"
       /\ Len(batches[b].tasks) = 2
       /\ batches[b].result.kind = "error"
       /\ batches[b].result.error = "QueryError"
       /\ \A c \in Callers :
             /\ callers[c].pc = "resumed"
             /\ callers[c].future[1] = b
             /\ callers[c].got.error = "QueryError"

\* C7: with a factory configured, each execution holds one handle from its
\* acquisition to the exit of "async with", runs one query on it, and has
\* released it when the batch ends, whether the query returned or raised;
\* the handles acquired and not released are those of the executions in
\* flight.
C7_ScopedHandleReleased ==
    async_bind_factory # None =>
       /\ \A b \in BatchIds :
             /\ batches[b].pc = "scheduled" =>
                   batches[b].handle = "none" /\ batches[b].store_executes = 0
             /\ batches[b].pc = "execute" =>
                   batches[b].handle = "held" /\ batches[b].store_executes = 0
             /\ batches[b].pc = "release" =>
                   batches[b].handle = "held" /\ batches[b].store_executes = 1
             /\ batches[b].pc = "done" =>
                   batches[b].handle = "released" /\ batches[b].store_executes = 1
       /\ acquired = Cardinality({b \in BatchIds : batches[b].pc # "scheduled"})
       /\ released = Cardinality({b \in BatchIds : batches[b].pc = "done"})

\* a query that failed on a scoped handle, the handle released, none left open
C7_Witness ==
    /\ async_bind_factory # None
    /\ \E b \in BatchIds :
          /\ batches[b].pc = "done"
          /\ batches[b].result.kind = "error"
          /\ batches[b].handle = "released"
    /\ acquired = released
    /\ acquired >= 1

\* C8, the state part: a caller has been resumed once when it is past its
\* wait and not at all before; it is resumed only from a finished batch, of
\* its own unit, from the task that holds its own key, with the exception of
\* the batch or with the slot its own key is due from the rows of the batch.
C8_Safe ==
    \A c \in Callers :
       /\ callers[c].resumes = IF callers[c].pc = "resumed" THEN 1 ELSE 0
       /\ callers[c].pc # "resumed" => callers[c].got = NoGot
       /\ callers[c].pc = "resumed" =>
             LET bt == batches[callers[c].future[1]]
             IN /\ bt.pc = "done"
                /\ bt.unit = callers[c].unit
                /\ bt.tasks[callers[c].future[2]] = callers[c].key
                /\ IF bt.result.kind = "error"
                   THEN callers[c].got = [kind |-> "exception", value |-> NoneValue,
                                          error |-> bt.result.error]
                   ELSE callers[c].got =
                          [kind |-> "result",
                           value |-> ExpectedSlot(RelByName(callers[c].rel),
                                                  callers[c].key, bt.result.rows),
                           error |-> ""]

\* C8: every suspended caller is resumed exactly once, after the batch that
\* holds its key has finished, with the result of its own key; and a caller
\* whose batch has finished does not stay suspended.
C8_ResumedOnceWithOwnResult ==
    /\ []C8_Safe
    /\ \A c \in Callers :
          (callers[c].pc = "waiting" /\ batches[callers[c].future[1]].pc = "done")
             ~> (callers[c].pc = "resumed")

\* two callers of one batch, resumed with the different results of their keys
C8_Witness ==
    /\ \A c \in Callers : callers[c].pc = "resumed" /\ callers[c].got.kind = "result"
    /\ callers[1].future[1] = callers[2].future[1]
    /\ callers[1].key # callers[2].key
    /\ callers[1].got.value # callers[2].got.value

\* C9: requests of one key in one key list get equal slots, each the slot a
\* request of that key alone gets, holding entities of rows of that key only.
C9_DuplicateKeys ==
    pf.pc = "returned" =>
       \A i, j \in DOMAIN pf.out :
          pf.keys[i] = pf.keys[j] =>
             /\ pf.out[i] = pf.out[j]
             /\ pf.out[i] = load_fn_return(RelByName(pf.rel), <<pf.keys[i]>>, pf.rows)[1]
             /\ \A e \in Range(pf.out[i].items) :
                   \E l \in 1..Len(pf.rows) :
                      /\ pf.rows[l].cols_filtered_on = pf.keys[i]
                      /\ pf.rows[l].target_entity = e

\* one key requested twice, with rows of it and a row of another key
C9_Witness ==
    /\ pf.pc = "returned"
    /\ Len(pf.keys) = 2
    /\ pf.keys[1] = pf.keys[2]
    /\ Len(pf.out) = 2
    /\ pf.out[1] = pf.out[2]
    /\ pf.out[1].items # <<>>
    /\ \E l \in 1..Len(pf.rows) : pf.rows[l].cols_filtered_on # pf.keys[1]

\* C10: the batches of different relationships are disjoint: every key of a
\* batch was submitted by a caller of the relationship of the batch's unit,
\* every call sits in a batch of its own relationship, and the query of a
\* batch is the query of its own relationship over its own keys.
C10_IndependentBatches ==
    /\ \A b \in BatchIds : \A i \in 1..Len(batches[b].tasks) :
          \E c \in Callers :
             /\ callers[c].pc # "idle"
             /\ callers[c].rel = batches[b].unit[1]
             /\ callers[c].key = batches[b].tasks[i]
             /\ callers[c].future = <<b, i>>
    /\ \A c \in Callers : callers[c].pc # "idle" =>
          batches[callers[c].future[1]].unit[1] = callers[c].rel
    /\ \A b \in BatchIds : batches[b].pc # "scheduled" =>
          /\ batches[b].query.in_keys = batches[b].tasks
          /\ batches[b].query.entity = RelByName(batches[b].unit[1]).entity
          /\ batches[b].query.cols =
                remote_cols_for_where(RelByName(batches[b].unit[1]))
          /\ batches[b].execute_calls = 1

\* the batches of two relationships in flight at the same time
C10_Witness ==
    \E b1, b2 \in BatchIds :
       /\ batches[b1].unit[1] # batches[b2].unit[1]
       /\ batches[b1].pc \in {"execute", "release"}
       /\ batches[b2].pc \in {"execute", "release"}
       /\ batches[b1].query.in_keys # <<>>
       /\ batches[b2].query.in_keys # <<>>

\* C11: the constructor fails for no configuration and warns exactly when
\* neither a bind nor a factory was given; on such a Loader loader_for still
\* hands a Fetch Unit to every caller and nothing has failed before a batch
\* is dispatched; every dispatched batch then fails on the assertion of
\* _execute, without reaching the store, and every caller resumed from it
\* gets that failure.
C11_UnconfiguredFailsOnExecute ==
    /\ warned <=> (bind = None /\ async_bind_factory = None)
    /\ (bind = None /\ async_bind_factory = None) =>
          /\ \A c \in Callers : callers[c].pc # "idle" =>
                /\ callers[c].rel \in DOMAIN loaders
                /\ loaders[callers[c].rel] = callers[c].unit
                /\ callers[c].unit \in DOMAIN units
          /\ \A b \in BatchIds :
                /\ ~batches[b].dispatched =>
                      /\ batches[b].outcome = Pending
                      /\ batches[b].result = NoResult
                /\ batches[b].dispatched =>
                      /\ batches[b].pc = "done"
                      /\ batches[b].execute_calls = 1
                      /\ batches[b].store_executes = 0
                      /\ batches[b].result.kind = "error"
                      /\ batches[b].result.error = "AssertionError"
                      /\ batches[b].outcome.kind = "exception"
                      /\ batches[b].outcome.error = "AssertionError"
          /\ \A c \in Callers : callers[c].pc = "resumed" =>
                /\ callers[c].got.kind = "exception"
                /\ callers[c].got.error = "AssertionError"
          /\ acquired = 0
          /\ bind_executes = 0

\* an unconfigured Loader that warned, registered two units, failed the batch
\* of the first on the assertion and resumed its caller with it, while the
\* batch of the second is not dispatched yet
C11_Witness ==
    /\ bind = None
    /\ async_bind_factory = None
    /\ warned
    /\ Cardinality(DOMAIN loaders) = 2
    /\ \E b1, b2 \in BatchIds :
          /\ batches[b1].pc = "done"
          /\ batches[b1].result.error = "AssertionError"
          /\ ~batches[b2].dispatched
          /\ \E c \in Callers :
                /\ callers[c].pc = "resumed"
                /\ callers[c].future[1] = b1
                /\ callers[c].got.error = "AssertionError"

\* C12 as stated: no load is answered by a batch that was already dispatched
\* when the load was made, so a key asked again in a later cycle is answered
\* by the query of that later cycle.
C12_NoCacheAcrossCycles ==
    \A c \in Callers : callers[c].pc # "idle" => ~callers[c].after_dispatch

\* C12, amended: a Fetch Unit remembers the future of every key it was asked
\* for.  Every call holds the future its unit has cached for its key, which
\* is the task of that key in a batch of that unit; over the life of the
\* Loader a unit puts a key into at most one task, hence into at most one
\* query; and a call made after the batch of its key was dispatched shares
\* the future of an earlier call for that key and is resumed with the
\* outcome of that earlier batch.
C12_CachedAcrossCycles ==
    /\ \A c \in Callers : callers[c].pc # "idle" =>
          /\ callers[c].key \in DOMAIN units[callers[c].unit].cache_map
          /\ units[callers[c].unit].cache_map[callers[c].key] = callers[c].future
          /\ batches[callers[c].future[1]].unit = callers[c].unit
          /\ batches[callers[c].future[1]].tasks[callers[c].future[2]] = callers[c].key
          /\ callers[c].after_dispatch =>
                \E d \in Callers :
                   /\ d < c
                   /\ callers[d].pc # "idle"
                   /\ callers[d].unit = callers[c].unit
                   /\ callers[d].key = callers[c].key
                   /\ callers[d].future = callers[c].future
                   /\ (callers[c].pc = "resumed" /\ callers[d].pc = "resumed") =>
                         callers[c].got = callers[d].got
    /\ \A b1, b2 \in BatchIds :
          \A i1 \in 1..Len(batches[b1].tasks), i2 \in 1..Len(batches[b2].tasks) :
             (/\ batches[b1].unit = batches[b2].unit
              /\ batches[b1].tasks[i1] = batches[b2].tasks[i2])
                => (b1 = b2 /\ i1 = i2)

\* the second caller asked the unit for the key of the first after the batch
\* of the first had finished; no second batch was made, and both callers were
\* resumed with the result of the one query
C12_Witness ==
    /\ Len(batches) = 1
    /\ batches[1].store_executes = 1
    /\ callers[1].pc = "resumed"
    /\ callers[2].pc = "resumed"
    /\ ~callers[1].after_dispatch
    /\ callers[2].after_dispatch
    /\ callers[2].future = callers[1].future
    /\ callers[2].got.kind = "result"
    /\ callers[2].got = callers[1].got

(***************************************************************************)
(* load_fn run on a store: a third specification, in which one call of     *)
(* load_fn builds its query from a relationship and a key list, executes   *)
(* it on the pre-acquired bind and regroups the rows.  The store varies in *)
(* the table the relationship's query filters on: the department of each   *)
(* employee (0 stands for NULL, which equals no key) or the rows of the    *)
(* join table.  Names are unique, so ORDER BY name is a total order.       *)
(***************************************************************************)
\* the key lists of a call: up to QMaxKeys keys, duplicates included
QMaxKeys == 2

AllJoinRows ==
    << [employee_id |-> 2, department_id |-> 2],
       [employee_id |-> 1, department_id |-> 1],
       [employee_id |-> 3, department_id |-> 1],
       [employee_id |-> 1, department_id |-> 2],
       [employee_id |-> 2, department_id |-> 1],
       [employee_id |-> 3, department_id |-> 2] >>

QDatabases(r) ==
    IF Len(RelByName(r).local_remote_pairs) > 1
    THEN {[Database EXCEPT !.join = SelectSeq(AllJoinRows, LAMBDA row : row \in S)] :
             S \in SUBSET Range(AllJoinRows)}
    ELSE {[Database EXCEPT !.employee =
              [i \in 1..Len(Database.employee) |->
                 [Database.employee[i] EXCEPT !.department_id = a[i]]]] :
             a \in [1..Len(Database.employee) -> {0, 1, 2}]}

InitQuery ==
    /\ Construct("session", None)
    /\ \E r \in RelNames :
         \E ks \in BSeq(Keys, QMaxKeys), db \in QDatabases(r) :
            pf = [pc |-> "q_called", rel |-> r, keys |-> ks, db |-> db,
                  query |-> NoQuery, rows |-> <<>>, out |-> <<>>]

\* load_fn from its call to its return, the execution succeeding
LoadFnRuns ==
    /\ pf.pc = "q_called"
    /\ LET relationship == RelByName(pf.rel)
           query == BuildQuery(relationship, pf.keys)
           rows == RunQuery(pf.db, query)
       IN pf' = [pf EXCEPT !.pc = "q_returned", !.query = query, !.rows = rows,
                           !.out = load_fn_return(relationship, pf.keys, rows)]
    /\ UNCHANGED <<bind, async_bind_factory, warned, loaders, created, units,
                   batches, callers, acquired, released, bind_executes>>

NextQuery == LoadFnRuns

SpecQuery == InitQuery /\ [][NextQuery]_vars

\* what load_fn returns for the one-key list <<key>> on store db
SingleKeyResult(relationship, db, key) ==
    load_fn_return(relationship, <<key>>,
                   RunQuery(db, BuildQuery(relationship, <<key>>)))[1]

\* C13: for each relationship (one-to-many, many-to-many through the join
\* table, many-to-one), each store and each key list of one batch, load_fn
\* returns one slot per key, and the slot of each key is equal, entities and
\* their order included, to what load_fn returns when it is called for that
\* key alone on the same store.
C13_BatchEqualsPerKeyQuery ==
    pf.pc = "q_returned" =>
       /\ Len(pf.out) = Len(pf.keys)
       /\ \A i \in 1..Len(pf.keys) :
             pf.out[i] = SingleKeyResult(RelByName(pf.rel), pf.db, pf.keys[i])

\* a many-to-many batch of two different keys, each with two related
\* entities, one entity related to both keys
C13_Witness ==
    /\ pf.pc = "q_returned"
    /\ Len(RelByName(pf.rel).local_remote_pairs) = 2
    /\ Len(pf.keys) = 2
    /\ pf.keys[1] # pf.keys[2]
    /\ Len(pf.out[1].items) = 2
    /\ Len(pf.out[2].items) = 2
    /\ \E e \in Range(pf.out[1].items) : e \in Range(pf.out[2].items)
    /\ pf.out[1] # pf.out[2]

\* the number of positions of sequence s holding x
Occurrences(s, x) == Cardinality({i \in 1..Len(s) : s[i] = x})

\* C14: no batch holds a key twice, and the IN predicate of the query of a
\* dispatched batch is the key list of the batch: every key a caller
\* requested in that batch is in the predicate exactly once, however many
\* callers requested it.
C14_KeysDistinctInQuery ==
    \A b \in BatchIds :
       /\ \A i, j \in 1..Len(batches[b].tasks) :
             batches[b].tasks[i] = batches[b].tasks[j] => i = j
       /\ batches[b].dispatched =>
             /\ batches[b].query.in_keys = batches[b].tasks
             /\ \A c \in Callers :
                   (callers[c].pc # "idle" /\ callers[c].future[1] = b) =>
                      Occurrences(batches[b].query.in_keys, callers[c].key) = 1

\* two callers requested the same key from the same unit before its batch
\* was dispatched; the query of the batch filters on that key once
C14_Witness ==
    /\ callers[1].pc # "idle"
    /\ callers[2].pc # "idle"
    /\ callers[1].unit = callers[2].unit
    /\ callers[1].key = callers[2].key
    /\ ~callers[2].after_dispatch
    /\ batches[callers[1].future[1]].dispatched
    /\ batches[callers[1].future[1]].query.in_keys = <<callers[1].key>>

\* C15: the registry is empty after construction; at every moment its keys
\* are exactly the relationships loader_for has been called for; no step
\* removes an entry or replaces the unit of an entry; and a step changes the
\* registry only by adding one entry, for the relationship of a loader_for
\* call that found it unregistered.
C15_RegistryGrowsOnly ==
    /\ loaders = <<>>
    /\ [](DOMAIN loaders = {callers[c].rel : c \in {d \in Callers : callers[d].pc # "idle"}})
    /\ [][/\ \A r \in DOMAIN loaders :
                /\ r \in DOMAIN loaders'
                /\ loaders'[r] = loaders[r]
          /\ loaders' # loaders =>
                \E c \in Callers :
                   /\ callers[c].pc = "idle"
                   /\ callers'[c].pc # "idle"
                   /\ callers'[c].rel \notin DOMAIN loaders
                   /\ DOMAIN loaders' = DOMAIN loaders \cup {callers'[c].rel}
                   /\ loaders'[callers'[c].rel] = callers'[c].unit]_vars

\* two relationships registered by two calls, the batch of the first unit
\* already failed and the second finished: both entries are still there
C15_Witness ==
    /\ Cardinality(DOMAIN loaders) = 2
    /\ callers[1].rel # callers[2].rel
    /\ loaders[callers[1].rel] = callers[1].unit
    /\ loaders[callers[2].rel] = callers[2].unit
    /\ batches[callers[1].future[1]].outcome.kind = "exception"
    /\ batches[callers[2].future[1]].outcome.kind = "values"
    /\ callers[1].pc = "resumed"
    /\ callers[2].pc = "resumed"

(***************************************************************************)
(* The query construction of load_fn alone (lines 77-100): a fourth        *)
(* specification, in which the relationship is any list of up to           *)
(* TMaxPairs (local, remote) pairs over a few columns with any set of      *)
(* local columns: one-to-many, composite, many-to-many and                 *)
(* self-referential shapes are among them, and the empty list stands for   *)
(* local_remote_pairs being None.  Every column is a table column and so   *)
(* has a key, as the columns of a configured relationship do.              *)
(***************************************************************************)
TMaxPairs == 2

TLocalCols == {Col("parent", "id"), Col("parent", "code"), Col("child", "id")}

TRemoteCols == {Col("child", "parent_id"), Col("link", "parent_id"),
                Col("link", "child_id")}

TRelationships ==
    {[name |-> "Parent.children", entity |-> "child",
      local_remote_pairs |-> ps, local_columns |-> lc,
      uselist |-> TRUE, order_by |-> <<>>] :
        ps \in BSeq(TLocalCols \X TRemoteCols, TMaxPairs), lc \in SUBSET TLocalCols}

InitBuildQuery ==
    /\ Construct("session", None)
    /\ \E relationship \in TRelationships, ks \in BSeq({<<1>>}, 1) :
          pf = [pc |-> "b_called", relationship |-> relationship, keys |-> ks,
                query |-> NoQuery]

\* load_fn from its call to the query it hands to _execute
QueryBuilt ==
    /\ pf.pc = "b_called"
    /\ pf' = [pf EXCEPT !.pc = "b_built",
                        !.query = BuildQuery(pf.relationship, pf.keys)]
    /\ UNCHANGED <<bind, async_bind_factory, warned, loaders, created, units,
                   batches, callers, acquired, released, bind_executes>>

NextBuildQuery == QueryBuilt

SpecBuildQuery == InitBuildQuery /\ [][NextBuildQuery]_vars

C17_FactoryTakesPrecedence ==
    /\ async_bind_factory # None =>
          /\ bind_executes = 0
          /\ acquired = Cardinality({b \in BatchIds : batches[b].dispatched})
          /\ \A b \in BatchIds : batches[b].dispatched =>
                /\ batches[b].handle # "none"
                /\ batches[b].trace # <<>>
                /\ batches[b].trace[1] = "acquire"
    /\ bind_executes > 0 => (async_bind_factory = None /\ bind # None)
    /\ async_bind_factory = None =>
          /\ acquired = 0
          /\ \A b \in BatchIds : batches[b].handle = "none"
    /\ (async_bind_factory = None /\ bind # None) =>
          /\ bind_executes = Cardinality({b \in BatchIds : batches[b].dispatched})
          /\ \A b \in BatchIds : batches[b].dispatched =>
                /\ batches[b].store_executes = 1
                /\ batches[b].trace[1] = "execute"

\* a Loader given both a bind and a factory has run a batch to its end on a
\* handle of the factory and resumed a caller with a result; the bind has
\* executed nothing
C17_Witness ==
    /\ bind # None
    /\ async_bind_factory # None
    /\ bind_executes = 0
    /\ acquired = 1
    /\ \E b \in BatchIds :
          /\ batches[b].pc = "done"
          /\ batches[b].store_executes = 1
          /\ batches[b].handle = "released"
          /\ batches[b].outcome.kind = "values"
          /\ \E c \in Callers :
                /\ callers[c].pc = "resumed"
                /\ callers[c].future[1] = b
                /\ callers[c].got.kind = "result"

\* the events of one batch execution on a scoped handle, in the order of the code
ScopedOrder == <<"acquire", "execute", "release", "rows", "regroup">>

\* C18: the events of a batch that runs on a handle of the factory are an
\* initial part of: acquire, execute, release, read the rows, regroup.  The
\* handle is held exactly from the acquisition up to the release; the rows
\* are read only after the release, so never while the handle is held; a
\* batch that ended with values went through all five events, and one whose
\* execution failed was released and read no rows.
C18_RowsReadAfterRelease ==
    \A b \in BatchIds : batches[b].handle # "none" =>
       LET trace == batches[b].trace
       IN /\ Len(trace) <= Len(ScopedOrder)
          /\ trace = SubSeq(ScopedOrder, 1, Len(trace))
          /\ (batches[b].handle = "held") <=> (trace \in {<<"acquire">>, <<"acquire", "execute">>})
          /\ \A i \in 1..Len(trace) : trace[i] = "rows" =>
                /\ batches[b].handle = "released"
                /\ \E j \in 1..(i - 1) : trace[j] = "release"
          /\ batches[b].pc = "execute" => trace = <<"acquire">>
          /\ batches[b].pc = "release" => trace = <<"acquire", "execute">>
          /\ batches[b].pc = "done" =>
                IF batches[b].result.kind = "error"
                THEN trace = <<"acquire", "execute", "release">>
                ELSE trace = ScopedOrder

\* a batch on a scoped handle ended with values regrouped from two rows: it
\* acquired, executed, released and only then read the rows
C18_Witness ==
    \E b \in BatchIds :
       /\ async_bind_factory # None
       /\ batches[b].pc = "done"
       /\ batches[b].handle = "released"
       /\ batches[b].trace = ScopedOrder
       /\ Len(batches[b].result.rows) = 2
       /\ batches[b].outcome.kind = "values"

====
